---------------------------- MODULE Spec2Model ----------------------------
(***************************************************************************)
(* LG soundbar media player (homeassistant/components/lg_soundbar/          *)
(* media_player.py): the LGDevice entity.  The entity keeps the last known  *)
(* device state in its attributes, merges the event messages the transport  *)
(* pushes through handle_event, and sends fire-and-forget commands.         *)
(***************************************************************************)
EXTENDS Integers, Sequences, FiniteSets, TLC

(***************************************************************************)
(* Bounds of the model.  Records are written with their fields in the order *)
(* in which the field names first occur in the module.                      *)
(***************************************************************************)
\* integer payload values are drawn from 0..MaxVal
MaxVal == 2
\* operations (events and commands) performed after _connect
MaxOps == 2
\* set_volume_level is called with the levels n/LevelDen, n in 0..LevelDen
LevelDen == 3

None == "None"

(***************************************************************************)
(* The two name tables of the temescal library (the leading entries of      *)
(* temescal.equalisers and temescal.functions), used as fixture tables.     *)
(***************************************************************************)
equalisers == <<"Standard", "Bass">>
functions == <<"Wifi", "Bluetooth">>

\* the code points of the characters of the names (for string comparison)
Chars(name) ==
    CASE name = "Standard"  -> <<83, 116, 97, 110, 100, 97, 114, 100>>
      [] name = "Bass"      -> <<66, 97, 115, 115>>
      [] name = "Wifi"      -> <<87, 105, 102, 105>>
      [] name = "Bluetooth" -> <<66, 108, 117, 101, 116, 111, 111, 116, 104>>
      [] name = "NoSuchInput" -> <<78, 111, 83, 117, 99, 104, 73, 110, 112, 117, 116>>

\* Python's str "<=": lexicographic order on the code points
RECURSIVE SeqLeq(_, _)
SeqLeq(a, b) ==
    IF a = <<>> THEN TRUE
    ELSE IF b = <<>> THEN FALSE
    ELSE IF Head(a) # Head(b) THEN Head(a) < Head(b)
    ELSE SeqLeq(Tail(a), Tail(b))

StrLeq(a, b) == SeqLeq(Chars(a), Chars(b))

\* insertion of a name into a sorted list, after the names that are <= it
RECURSIVE Insert(_, _)
Insert(x, s) ==
    IF s = <<>> THEN <<x>>
    ELSE IF StrLeq(Head(s), x) THEN <<Head(s)>> \o Insert(x, Tail(s))
    ELSE <<x>> \o s

\* Python's sorted() on a list of str
RECURSIVE sorted(_)
sorted(s) == IF s = <<>> THEN <<>> ELSE Insert(s[Len(s)], sorted(SubSeq(s, 1, Len(s) - 1)))

\* Python's table[i]: 0-based, a negative index counts from the end,
\* an index outside -len..len-1 raises IndexError
PyItem(table, i) ==
    IF 0 <= i /\ i < Len(table) THEN table[i + 1]
    ELSE IF i < 0 /\ -Len(table) <= i THEN table[Len(table) + i + 1]
    ELSE "IndexError"

\* Python's table.index(name): the first position of name; not found is ValueError
PyIndex(table, name) ==
    IF \E i \in 1..Len(table) : table[i] = name
    THEN [found |-> TRUE,
          index |-> (CHOOSE i \in 1..Len(table) :
                        table[i] = name /\ \A j \in 1..(i - 1) : table[j] # name) - 1]
    ELSE [found |-> FALSE, index |-> -1]

(***************************************************************************)
(* Event messages: {msg, data}.  data is a mapping from keys to values.     *)
(***************************************************************************)
Vals == 0..MaxVal
\* indices: below -len (IndexError), negative, the sentinel -1, valid, too large
Indices == (-(Len(equalisers) + 1))..Len(equalisers)
Lists == {<<>>, <<1, 0>>, <<0, 2>>, <<-1, 1>>, <<-3, 0>>}
UserNames == {"Soundbar", "Den"}

EqKeys == {"i_bass", "i_treble", "ai_eq_list", "i_curr_eq"}
SpkKeys == {"i_vol", "i_vol_min", "i_vol_max", "i_curr_func"}
PowerKeys == {"b_powerstatus", "b_power_status"}
FuncKeys == {"i_curr_func", "ai_func_list"}
SettingKeys == {"i_rear_min", "i_rear_max", "i_rear_level", "i_woofer_min",
                "i_woofer_max", "i_woofer_level", "i_curr_eq", "s_user_name"}

KeyVals(k) ==
    IF k \in {"i_curr_eq", "i_curr_func"} THEN Indices
    ELSE IF k \in {"ai_eq_list", "ai_func_list"} THEN Lists
    ELSE IF k \in PowerKeys THEN BOOLEAN
    ELSE IF k = "s_user_name" THEN UserNames
    ELSE Vals

\* payloads with no key, and with one key of keys
One(keys) == {[x \in {} |-> 0]} \cup
             UNION {{[x \in {k} |-> v] : v \in KeyVals(k)} : k \in keys}
\* payloads with the two keys k1 and k2
Two(k1, k2) == {[x \in {k1, k2} |-> IF x = k1 THEN v1 ELSE v2] :
                    v1 \in KeyVals(k1), v2 \in KeyVals(k2)}

Msgs(kind, payloads) == {[msg |-> kind, data |-> d] : d \in payloads}

Messages ==
    Msgs("EQ_VIEW_INFO", One(EqKeys) \cup Two("i_bass", "i_vol"))
    \cup Msgs("SPK_LIST_VIEW_INFO",
              One(SpkKeys \cup PowerKeys) \cup Two("i_vol", "i_vol_max")
              \cup Two("b_powerstatus", "b_power_status")
              \cup Two("i_vol_min", "b_powerstatus")
              \cup Two("i_curr_func", "b_power_status"))
    \cup Msgs("FUNC_VIEW_INFO", One(FuncKeys))
    \cup Msgs("SETTING_VIEW_INFO", One(SettingKeys) \cup Two("i_rear_level", "i_bass"))
    \cup Msgs("PRODUCT_INFO", One({"i_vol", "s_user_name"}))

(***************************************************************************)
(* State.                                                                   *)
(***************************************************************************)
VARIABLES
    self,       \* the attributes of the LGDevice that hold the device state
    device,     \* self._device: None, or the temescal connection
    sent,       \* the requests made on self._device, in order
    notified,   \* number of schedule_update_ha_state calls
    handled,    \* number of handle_event calls
    pre,        \* the attributes before the last operation
    last,       \* the last operation: its name, argument and outcome
    ops,        \* number of operations performed after _connect
    callback,   \* line of handle_event the transport's callback context is at
    reader      \* the host's context inside volume_level: its line and locals

vars == <<self, device, sent, notified, handled, pre, last, ops, callback, reader>>

\* LGDevice.__init__ and the class attributes; _attr_name is the default the
\* Entity base class gives (None) until a SETTING_VIEW_INFO event names the device
NewDevice ==
    [_attr_state |-> "ON", _attr_name |-> None,
     _volume |-> 0, _volume_min |-> 0, _volume_max |-> 0,
     _function |-> -1, _functions |-> <<>>,
     _equaliser |-> -1, _equalisers |-> <<>>,
     _mute |-> 0,
     _rear_volume |-> 0, _rear_volume_min |-> 0, _rear_volume_max |-> 0,
     _woofer_volume |-> 0, _woofer_volume_min |-> 0, _woofer_volume_max |-> 0,
     _bass |-> 0, _treble |-> 0]

Init ==
    /\ self = NewDevice
    /\ device = None
    /\ sent = <<>>
    /\ notified = 0
    /\ handled = 0
    /\ pre = NewDevice
    /\ last = [op |-> "__init__", arg |-> None, raised |-> None]
    /\ ops = 0
    /\ callback = "idle"
    /\ reader = [pc |-> "idle", volume |-> 0, result |-> [num |-> 0, den |-> 1],
                 allowed |-> {}]

(***************************************************************************)
(* The event handlers.  Each returns the attributes after the handler and   *)
(* the exception it raised (None when it returned).                         *)
(***************************************************************************)
Returned(s) == [raised |-> None, attrs |-> s]
Raised(s, e) == [raised |-> e, attrs |-> s]

\* mutant: the payload is never read, the previous value always stays
get_value_ignores_data(data, key, default_value) == default_value

get_value(data, key, default_value) ==
    IF key \in DOMAIN data THEN data[key] ELSE default_value


\* mutant: the treble falls back to the bass instead of the previous treble
handle_eq_treble_default_bass(s, data) ==
    Returned([s EXCEPT
        !._bass = get_value(data, "i_bass", s._bass),
        !._treble = get_value(data, "i_treble", s._bass),
        !._equalisers = get_value(data, "ai_eq_list", s._equalisers),
        !._equaliser = get_value(data, "i_curr_eq", s._equaliser)])

\* mutant: the equaliser handler also takes the volume of the payload
handle_eq_takes_volume(s, data) ==
    Returned([s EXCEPT
        !._bass = get_value(data, "i_bass", s._bass),
        !._treble = get_value(data, "i_treble", s._treble),
        !._equalisers = get_value(data, "ai_eq_list", s._equalisers),
        !._equaliser = get_value(data, "i_curr_eq", s._equaliser),
        !._volume = get_value(data, "i_vol", s._volume)])

handle_eq_view_info_event(s, data) ==
    Returned([s EXCEPT
        !._bass = get_value(data, "i_bass", s._bass),
        !._treble = get_value(data, "i_treble", s._treble),
        !._equalisers = get_value(data, "ai_eq_list", s._equalisers),
        !._equaliser = get_value(data, "i_curr_eq", s._equaliser)])

\* mutant: the presence test and the read use the same key, b_power_status
handle_spk_tests_power_status(s, data) ==
    LET t == [s EXCEPT
                !._volume = get_value(data, "i_vol", s._volume),
                !._volume_min = get_value(data, "i_vol_min", s._volume_min),
                !._volume_max = get_value(data, "i_vol_max", s._volume_max),
                !._function = get_value(data, "i_curr_func", s._function)]
    IN  IF "b_power_status" \in DOMAIN data
        THEN IF data["b_power_status"]
             THEN Returned([t EXCEPT !._attr_state = "ON"])
             ELSE Returned([t EXCEPT !._attr_state = "OFF"])
        ELSE Returned(t)

handle_spk_list_view_info_event(s, data) ==
    LET t == [s EXCEPT
                !._volume = get_value(data, "i_vol", s._volume),
                !._volume_min = get_value(data, "i_vol_min", s._volume_min),
                !._volume_max = get_value(data, "i_vol_max", s._volume_max),
                !._function = get_value(data, "i_curr_func", s._function)]
    IN  IF "b_powerstatus" \in DOMAIN data
        THEN IF "b_power_status" \notin DOMAIN data
             THEN Raised(t, "KeyError")
             ELSE IF data["b_power_status"]
                  THEN Returned([t EXCEPT !._attr_state = "ON"])
                  ELSE Returned([t EXCEPT !._attr_state = "OFF"])
        ELSE Returned(t)

\* mutant: the function list of the payload is appended, not stored
handle_func_extends_list(s, data) ==
    Returned([s EXCEPT
        !._function = get_value(data, "i_curr_func", s._function),
        !._functions = s._functions \o get_value(data, "ai_func_list", <<>>)])

handle_func_view_info_event(s, data) ==
    Returned([s EXCEPT
        !._function = get_value(data, "i_curr_func", s._function),
        !._functions = get_value(data, "ai_func_list", s._functions)])

\* mutant: without i_curr_eq the current equaliser is reset to the sentinel
handle_setting_resets_equaliser(s, data) ==
    Returned([s EXCEPT
        !._rear_volume_min = get_value(data, "i_rear_min", s._rear_volume_min),
        !._rear_volume_max = get_value(data, "i_rear_max", s._rear_volume_max),
        !._rear_volume = get_value(data, "i_rear_level", s._rear_volume),
        !._woofer_volume_min = get_value(data, "i_woofer_min", s._woofer_volume_min),
        !._woofer_volume_max = get_value(data, "i_woofer_max", s._woofer_volume_max),
        !._woofer_volume = get_value(data, "i_woofer_level", s._woofer_volume),
        !._equaliser = get_value(data, "i_curr_eq", -1),
        !._attr_name = get_value(data, "s_user_name", s._attr_name)])

handle_setting_view_info_event(s, data) ==
    Returned([s EXCEPT
        !._rear_volume_min = get_value(data, "i_rear_min", s._rear_volume_min),
        !._rear_volume_max = get_value(data, "i_rear_max", s._rear_volume_max),
        !._rear_volume = get_value(data, "i_rear_level", s._rear_volume),
        !._woofer_volume_min = get_value(data, "i_woofer_min", s._woofer_volume_min),
        !._woofer_volume_max = get_value(data, "i_woofer_max", s._woofer_volume_max),
        !._woofer_volume = get_value(data, "i_woofer_level", s._woofer_volume),
        !._equaliser = get_value(data, "i_curr_eq", s._equaliser),
        !._attr_name = get_value(data, "s_user_name", s._attr_name)])

\* mutant: the last branch of the dispatch is an else, not an elif
Dispatch_else_setting(s, response) ==
    LET data == response.data
    IN  IF response.msg = "EQ_VIEW_INFO" THEN handle_eq_view_info_event(s, data)
        ELSE IF response.msg = "SPK_LIST_VIEW_INFO"
             THEN handle_spk_list_view_info_event(s, data)
        ELSE IF response.msg = "FUNC_VIEW_INFO"
             THEN handle_func_view_info_event(s, data)
        ELSE handle_setting_view_info_event(s, data)

\* the dispatch of handle_event, before schedule_update_ha_state
Dispatch(s, response) ==
    LET data == response.data
    IN  IF response.msg = "EQ_VIEW_INFO" THEN handle_eq_view_info_event(s, data)
        ELSE IF response.msg = "SPK_LIST_VIEW_INFO"
             THEN handle_spk_list_view_info_event(s, data)
        ELSE IF response.msg = "FUNC_VIEW_INFO"
             THEN handle_func_view_info_event(s, data)
        ELSE IF response.msg = "SETTING_VIEW_INFO"
             THEN handle_setting_view_info_event(s, data)
        ELSE Returned(s)

\* schedule_update_ha_state is reached only when the dispatch returned
Notifications(n, outcome) == IF outcome.raised = None THEN n + 1 ELSE n



\* mutant: the general info is requested before the equaliser info
update_requests_info_first == <<"get_info", "get_eq", "get_func", "get_settings">>

\* update(): the four poll requests
update_requests == <<"get_eq", "get_info", "get_func", "get_settings">>

Request(name) == [arg |-> None, cmd |-> name]

RECURSIVE Requests(_)
Requests(names) ==
    IF names = <<>> THEN <<>> ELSE <<Request(Head(names))>> \o Requests(Tail(names))

\* _connect(): opens the transport with callback=handle_event, then queries
_connect ==
    /\ device = None
    /\ device' = "temescal"
    /\ sent' = sent \o Requests(<<"get_product_info", "get_mac_info">>)
                    \o Requests(update_requests)
    /\ pre' = self
    /\ last' = [op |-> "_connect", arg |-> None, raised |-> None]
    /\ UNCHANGED <<self, notified, handled, ops, callback, reader>>

\* handle_event(response), called by the transport once it is connected
handle_event(response) ==
    /\ device # None
    /\ ops < MaxOps
    /\ LET outcome == Dispatch(self, response)
       IN  /\ self' = outcome.attrs
           /\ notified' = Notifications(notified, outcome)
           /\ last' = [op |-> "handle_event", arg |-> response,
                       raised |-> outcome.raised]
    /\ handled' = handled + 1
    /\ pre' = self
    /\ ops' = ops + 1
    /\ UNCHANGED <<device, sent, callback, reader>>

(***************************************************************************)
(* The read accessors (properties of the entity).                           *)
(***************************************************************************)
\* a quotient num/den of two integers, kept exact
Ratio(num, den) == [num |-> num, den |-> den]

volume_level(s) ==
    IF s._volume_max # 0 THEN Ratio(s._volume, s._volume_max) ELSE Ratio(0, 1)

is_volume_muted(s) == s._mute

sound_mode(s) ==
    IF s._equaliser = -1 \/ s._equaliser >= Len(equalisers) THEN None
    ELSE PyItem(equalisers, s._equaliser)

source(s) ==
    IF s._function = -1 \/ s._function >= Len(functions) THEN None
    ELSE PyItem(functions, s._function)

\* the loop of sound_mode_list / source_list: the names appended, in order
RECURSIVE Collect(_, _)
Collect(table, indices) ==
    IF indices = <<>> THEN <<>>
    ELSE IF Head(indices) < Len(table)
         THEN <<PyItem(table, Head(indices))>> \o Collect(table, Tail(indices))
         ELSE Collect(table, Tail(indices))

\* the loop raises IndexError at the first index below -len(table)
NameList(table, indices) ==
    LET names == Collect(table, indices)
    IN  IF \E i \in 1..Len(names) : names[i] = "IndexError" THEN "IndexError"
        ELSE sorted(names)

sound_mode_list(s) == NameList(equalisers, s._equalisers)

source_list(s) == NameList(functions, s._functions)

(***************************************************************************)
(* The commands.  The entity receives them once async_added_to_hass has run *)
(* _connect, so self._device is set.                                        *)
(***************************************************************************)
\* Python's int() of the quotient num/den: truncation towards zero
IntOf(num, den) == IF num >= 0 THEN num \div den ELSE -((-num) \div den)

Levels == {Ratio(n, LevelDen) : n \in 0..LevelDen}
SourceNames == {functions[i] : i \in 1..Len(functions)} \cup {"NoSuchInput"}
SoundModeNames == {equalisers[i] : i \in 1..Len(equalisers)} \cup {"NoSuchInput"}

\* a command that makes the requests reqs on self._device, or raises
Command(name, arg, reqs, exc) ==
    /\ device # None
    /\ ops < MaxOps
    /\ sent' = sent \o reqs
    /\ pre' = self
    /\ last' = [op |-> name, arg |-> arg, raised |-> exc]
    /\ ops' = ops + 1
    /\ UNCHANGED <<self, device, notified, handled, callback, reader>>

update == Command("update", None, Requests(update_requests), None)

\* Python's round() of the quotient num/den, num >= 0: the nearest integer,
\* the even one of the two when num/den lies halfway
PyRound(num, den) ==
    LET q == num \div den
        r == num % den
    IN  IF 2 * r < den THEN q
        ELSE IF 2 * r > den THEN q + 1
        ELSE IF q % 2 = 0 THEN q ELSE q + 1

\* mutant: the volume sent is rounded, not truncated
set_volume_level_rounds(volume) ==
    Command("set_volume_level", volume,
            <<[arg |-> PyRound(volume.num * self._volume_max, volume.den),
               cmd |-> "set_volume"]>>, None)

set_volume_level(volume) ==
    Command("set_volume_level", volume,
            <<[arg |-> IntOf(volume.num * self._volume_max, volume.den),
               cmd |-> "set_volume"]>>, None)

\* mutant: the mute flag is also stored in the snapshot
mute_volume_stores(mute) ==
    /\ device # None
    /\ ops < MaxOps
    /\ sent' = sent \o <<[arg |-> mute, cmd |-> "set_mute"]>>
    /\ self' = [self EXCEPT !._mute = IF mute THEN 1 ELSE 0]
    /\ pre' = self
    /\ last' = [op |-> "mute_volume", arg |-> mute, raised |-> None]
    /\ ops' = ops + 1
    /\ UNCHANGED <<device, notified, handled, callback, reader>>

mute_volume(mute) ==
    Command("mute_volume", mute, <<[arg |-> mute, cmd |-> "set_mute"]>>, None)

\* mutant: a find-like lookup, a missing name is sent as index -1
SelectIn_sends_missing(op, cmd, table, name) ==
    LET position == PyIndex(table, name)
    IN  Command(op, name, <<[arg |-> position.index, cmd |-> cmd]>>, None)

\* table.index(name) is evaluated before the request is made
SelectIn(op, cmd, table, name) ==
    LET position == PyIndex(table, name)
    IN  IF ~position.found THEN Command(op, name, <<>>, "ValueError")
        ELSE Command(op, name, <<[arg |-> position.index, cmd |-> cmd]>>, None)

select_source(name) == SelectIn("select_source", "set_func", functions, name)

select_sound_mode(name) == SelectIn("select_sound_mode", "set_eq", equalisers, name)

\* mutant: the power state is set optimistically when the command is sent
_set_power_optimistic(op, status) ==
    /\ device # None
    /\ ops < MaxOps
    /\ sent' = sent \o <<[arg |-> [msg |-> "SPK_LIST_VIEW_INFO",
                                   data |-> [b_powerkey |-> status], cmd |-> "set"],
                          cmd |-> "send_packet"]>>
    /\ self' = [self EXCEPT !._attr_state = IF status THEN "ON" ELSE "OFF"]
    /\ pre' = self
    /\ last' = [op |-> op, arg |-> None, raised |-> None]
    /\ ops' = ops + 1
    /\ UNCHANGED <<device, notified, handled, callback, reader>>

_set_power(op, status) ==
    Command(op, None,
            <<[arg |-> [msg |-> "SPK_LIST_VIEW_INFO",
                        data |-> [b_powerkey |-> status], cmd |-> "set"],
               cmd |-> "send_packet"]>>, None)

turn_on == _set_power("turn_on", TRUE)

turn_off == _set_power("turn_off", FALSE)

Next ==
    \/ _connect
    \/ \E response \in Messages : handle_event(response)
    \/ update
    \/ \E volume \in Levels : set_volume_level(volume)
    \/ \E mute \in BOOLEAN : mute_volume(mute)
    \/ \E name \in SourceNames : select_source(name)
    \/ \E name \in SoundModeNames : select_sound_mode(name)
    \/ turn_on
    \/ turn_off


Spec == Init /\ [][Next]_vars

(***************************************************************************)
(* The callback context and the host's context, line by line.  temescal     *)
(* calls handle_event on its own listener context while the host reads      *)
(* volume_level; each context runs one attribute read or write at a time.   *)
(* The callback runs SPK_LIST_VIEW_INFO events, the only kind that writes   *)
(* the attributes volume_level reads.                                       *)
(***************************************************************************)
SpkMessages == {m \in Messages : m.msg = "SPK_LIST_VIEW_INFO"}

\* lines 136-140: data = response["data"], dispatch to the SPK handler.  A
\* read in progress may also return the value of the snapshot after this event.
handle_event_call(response) ==
    /\ device # None
    /\ callback = "idle"
    /\ handled < MaxOps
    /\ callback' = "98"
    /\ pre' = self
    /\ last' = [op |-> "handle_event", arg |-> response, raised |-> None]
    /\ handled' = handled + 1
    /\ reader' = IF reader.pc \in {"157", "158", "158_div"}
                 THEN [reader EXCEPT !.allowed =
                          @ \cup {volume_level(Dispatch(self, response).attrs)}]
                 ELSE reader
    /\ UNCHANGED <<self, device, sent, notified, ops>>

\* one assignment of lines 98-101
spk_assign(line, next, attr, key) ==
    /\ callback = line
    /\ callback' = next
    /\ self' = [self EXCEPT ![attr] = get_value(last.arg.data, key, self[attr])]
    /\ UNCHANGED <<device, sent, notified, handled, pre, last, ops, reader>>

spk_98 == spk_assign("98", "99", "_volume", "i_vol")

spk_99 == spk_assign("99", "100", "_volume_min", "i_vol_min")

spk_100 == spk_assign("100", "101", "_volume_max", "i_vol_max")

spk_101 == spk_assign("101", "102", "_function", "i_curr_func")

\* lines 102-106: the power status, or the KeyError that ends handle_event
spk_102 ==
    /\ callback = "102"
    /\ LET data == last.arg.data
       IN  IF "b_powerstatus" \in DOMAIN data
           THEN IF "b_power_status" \notin DOMAIN data
                THEN /\ callback' = "idle"
                     /\ last' = [last EXCEPT !.raised = "KeyError"]
                     /\ self' = self
                ELSE /\ callback' = "146"
                     /\ last' = last
                     /\ self' = [self EXCEPT !._attr_state =
                                    IF data["b_power_status"] THEN "ON" ELSE "OFF"]
           ELSE /\ callback' = "146"
                /\ last' = last
                /\ self' = self
    /\ UNCHANGED <<device, sent, notified, handled, pre, ops, reader>>

\* line 146: schedule_update_ha_state()
handle_event_146 ==
    /\ callback = "146"
    /\ callback' = "idle"
    /\ notified' = notified + 1
    /\ UNCHANGED <<self, device, sent, handled, pre, last, ops, reader>>

\* the host calls volume_level: what it may return is the value of the
\* snapshot before the event in progress, or of the snapshot after it
volume_level_call ==
    /\ device # None
    /\ reader.pc = "idle"
    /\ reader' = [reader EXCEPT
                    !.pc = "157",
                    !.allowed = IF callback = "idle"
                                THEN {volume_level(self)}
                                ELSE {volume_level(pre),
                                      volume_level(Dispatch(pre, last.arg).attrs)}]
    /\ UNCHANGED <<self, device, sent, notified, handled, pre, last, ops, callback>>

\* line 157: if self._volume_max != 0; line 160: return 0
volume_level_157 ==
    /\ reader.pc = "157"
    /\ reader' = IF self._volume_max # 0
                 THEN [reader EXCEPT !.pc = "158"]
                 ELSE [reader EXCEPT !.pc = "returned", !.result = Ratio(0, 1)]
    /\ UNCHANGED <<self, device, sent, notified, handled, pre, last, ops, callback>>

\* line 158: the left operand, self._volume, is read first
volume_level_158 ==
    /\ reader.pc = "158"
    /\ reader' = [reader EXCEPT !.pc = "158_div", !.volume = self._volume]
    /\ UNCHANGED <<self, device, sent, notified, handled, pre, last, ops, callback>>

\* line 158: self._volume_max is read again and divides
volume_level_158_div ==
    /\ reader.pc = "158_div"
    /\ reader' = IF self._volume_max = 0
                 THEN [reader EXCEPT !.pc = "ZeroDivisionError"]
                 ELSE [reader EXCEPT !.pc = "returned",
                                     !.result = Ratio(reader.volume, self._volume_max)]
    /\ UNCHANGED <<self, device, sent, notified, handled, pre, last, ops, callback>>

NextConcurrent ==
    \/ _connect
    \/ \E response \in SpkMessages : handle_event_call(response)
    \/ spk_98
    \/ spk_99
    \/ spk_100
    \/ spk_101
    \/ spk_102
    \/ handle_event_146
    \/ volume_level_call
    \/ volume_level_157
    \/ volume_level_158
    \/ volume_level_158_div

SpecConcurrent == Init /\ [][NextConcurrent]_vars

(***************************************************************************)
(* Vocabulary of the properties.                                            *)
(***************************************************************************)
RecognizedKinds ==
    {"EQ_VIEW_INFO", "SPK_LIST_VIEW_INFO", "FUNC_VIEW_INFO", "SETTING_VIEW_INFO"}

\* the payload keys of the retain-or-overwrite rule of each event kind
KindKeys(kind) ==
    CASE kind = "EQ_VIEW_INFO" -> EqKeys
      [] kind = "SPK_LIST_VIEW_INFO" -> SpkKeys
      [] kind = "FUNC_VIEW_INFO" -> FuncKeys
      [] kind = "SETTING_VIEW_INFO" -> SettingKeys

\* the attribute that holds the value of a payload key
Field(key) ==
    CASE key = "i_bass" -> "_bass"
      [] key = "i_treble" -> "_treble"
      [] key = "ai_eq_list" -> "_equalisers"
      [] key = "i_curr_eq" -> "_equaliser"
      [] key = "i_vol" -> "_volume"
      [] key = "i_vol_min" -> "_volume_min"
      [] key = "i_vol_max" -> "_volume_max"
      [] key = "i_curr_func" -> "_function"
      [] key = "ai_func_list" -> "_functions"
      [] key = "i_rear_min" -> "_rear_volume_min"
      [] key = "i_rear_max" -> "_rear_volume_max"
      [] key = "i_rear_level" -> "_rear_volume"
      [] key = "i_woofer_min" -> "_woofer_volume_min"
      [] key = "i_woofer_max" -> "_woofer_volume_max"
      [] key = "i_woofer_level" -> "_woofer_volume"
      [] key = "s_user_name" -> "_attr_name"

\* the last operation was handle_event on a message of a recognized kind
LastRecognized == last.op = "handle_event" /\ last.arg.msg \in RecognizedKinds

\* this step is a call of handle_event
EventStep == handled' = handled + 1

(***************************************************************************)
(* C1  Retain-on-absence: after handle_event on a message of a recognized   *)
(* kind, every key of that kind's field set that the payload does not       *)
(* contain has left its attribute at the value it had before the event.     *)
(***************************************************************************)
C1_RetainOnAbsence ==
    LastRecognized =>
        \A k \in KindKeys(last.arg.msg) \ DOMAIN last.arg.data :
            self[Field(k)] = pre[Field(k)]

\* an EQ event that carries only i_treble has kept a bass of 2
C1_Witness ==
    /\ last.op = "handle_event"
    /\ last.arg.msg = "EQ_VIEW_INFO"
    /\ DOMAIN last.arg.data = {"i_treble"}
    /\ pre._bass = 2
    /\ self._bass = 2
    /\ self._treble # pre._treble

(***************************************************************************)
(* C2  Overwrite-on-presence: after handle_event on a message of a          *)
(* recognized kind, every key of that kind's field set that the payload     *)
(* contains has its attribute equal to the payload's value, whatever the    *)
(* attribute was before and whatever else the payload contains.             *)
(***************************************************************************)
C2_OverwriteOnPresence ==
    LastRecognized =>
        \A k \in KindKeys(last.arg.msg) \cap DOMAIN last.arg.data :
            self[Field(k)] = last.arg.data[k]

\* an SPK event with two keys has replaced a volume of 2 by 1
C2_Witness ==
    /\ last.op = "handle_event"
    /\ last.arg.msg = "SPK_LIST_VIEW_INFO"
    /\ DOMAIN last.arg.data = {"i_vol", "i_vol_max"}
    /\ pre._volume = 2
    /\ last.arg.data["i_vol"] = 1
    /\ self._volume = 1
    /\ self._volume_max = 2

(***************************************************************************)
(* C3  Every call of handle_event invokes schedule_update_ha_state exactly  *)
(* once: after n events the notification has fired n times.                 *)
(***************************************************************************)
C3_NotifiedEveryEvent == notified = handled

(***************************************************************************)
(* C4  handle_event on a message of an unrecognized kind changes no         *)
(* attribute, raises nothing and fires the notification once.               *)
(***************************************************************************)
C4_UnrecognizedKindIgnored ==
    [][(EventStep /\ last'.arg.msg \notin RecognizedKinds) =>
          /\ self' = self
          /\ last'.raised = None
          /\ notified' = notified + 1]_vars

\* an unrecognized message carrying i_vol has left a changed snapshot alone
C4_Witness ==
    /\ last.op = "handle_event"
    /\ last.arg.msg = "PRODUCT_INFO"
    /\ DOMAIN last.arg.data = {"i_vol"}
    /\ self = pre
    /\ self._volume # last.arg.data["i_vol"]
    /\ self # NewDevice
    /\ notified = 2

(***************************************************************************)
(* C5  volume_level() is in [0,1] whenever volume_max > 0, and is 0 when    *)
(* volume_max = 0 (events carry non-negative integer volumes).              *)
(***************************************************************************)
C5_VolumeLevelBounds ==
    LET level == volume_level(self)
    IN  /\ self._volume_max > 0 =>
              /\ level.den > 0
              /\ 0 <= level.num
              /\ level.num <= level.den
        /\ self._volume_max = 0 => level.num = 0

(***************************************************************************)
(* C6  sound_mode_list() and source_list() are sorted and hold exactly the  *)
(* table names of the indices that lie in 0..len(table)-1; an index outside *)
(* (too large or negative) contributes no entry.                            *)
(***************************************************************************)
InBounds(table, i) == 0 <= i /\ i < Len(table)

RECURSIVE NamesInBounds(_, _)
NamesInBounds(table, indices) ==
    IF indices = <<>> THEN <<>>
    ELSE IF InBounds(table, Head(indices))
         THEN <<table[Head(indices) + 1]>> \o NamesInBounds(table, Tail(indices))
         ELSE NamesInBounds(table, Tail(indices))

IsSorted(names) == \A i \in 1..(Len(names) - 1) : StrLeq(names[i], names[i + 1])

\* names is a list of names, sorted, with the same names as expected
SortedListOf(names, expected) ==
    /\ names # "IndexError"
    /\ IsSorted(names)
    /\ Len(names) = Len(expected)
    /\ \A n \in {expected[i] : i \in 1..Len(expected)} :
          Cardinality({i \in 1..Len(names) : names[i] = n})
              = Cardinality({i \in 1..Len(expected) : expected[i] = n})

C6_ListsSortedInBounds ==
    /\ SortedListOf(sound_mode_list(self), NamesInBounds(equalisers, self._equalisers))
    /\ SortedListOf(source_list(self), NamesInBounds(functions, self._functions))

(***************************************************************************)
(* C7  sound_mode() is the equalizer-table name at current_equalizer when   *)
(* that index is in range of the table and None for -1 or any other index   *)
(* out of range; source() likewise with current_function.                   *)
(***************************************************************************)
Lookup(table, i) == IF InBounds(table, i) THEN table[i + 1] ELSE None

C7_CurrentNameLookup ==
    /\ sound_mode(self) = Lookup(equalisers, self._equaliser)
    /\ source(self) = Lookup(functions, self._function)

(***************************************************************************)
(* C8  select_source / select_sound_mode with a name absent from the table  *)
(* raises before any request is made (nothing is sent, no attribute         *)
(* changes); with a name of the table exactly one request is made, and it   *)
(* carries the table index of the name.                                     *)
(***************************************************************************)
TableOf(op) == IF op = "select_source" THEN functions ELSE equalisers
RequestOf(op) == IF op = "select_source" THEN "set_func" ELSE "set_eq"
NamesOf(table) == {table[i] : i \in 1..Len(table)}

C8_UnknownNameRejected ==
    [][(ops' = ops + 1 /\ last'.op \in {"select_source", "select_sound_mode"}) =>
          LET table == TableOf(last'.op)
              name == last'.arg
          IN  /\ self' = self
              /\ IF name \notin NamesOf(table)
                 THEN /\ last'.raised = "ValueError"
                      /\ sent' = sent
                 ELSE /\ last'.raised = None
                      /\ Len(sent') = Len(sent) + 1
                      /\ SubSeq(sent', 1, Len(sent)) = sent
                      /\ sent'[Len(sent')].cmd = RequestOf(last'.op)
                      /\ table[sent'[Len(sent')].arg + 1] = name]_vars

\* after a sound mode was selected, an unknown source was refused: the only
\* request after those of _connect is the set_eq
C8_Witness ==
    /\ last.op = "select_source"
    /\ last.arg = "NoSuchInput"
    /\ last.raised = "ValueError"
    /\ Len(sent) = 7
    /\ sent[7].cmd = "set_eq"
    /\ sent[7].arg = 1

(***************************************************************************)
(* C9  Order independence.  As claimed: two events of different recognized  *)
(* kinds give the same snapshot in either order.  As amended: they do       *)
(* unless both payloads carry a key that the two kinds share (i_curr_func   *)
(* for SPK and FUNC, i_curr_eq for EQ and SETTING) with different values.   *)
(***************************************************************************)
\* this step handles a second event, of another recognized kind than the last
TwoKinds ==
    /\ EventStep
    /\ LastRecognized
    /\ last'.arg.msg \in RecognizedKinds
    /\ last'.arg.msg # last.arg.msg

\* the snapshot after this step is the one the opposite order gives
SameInOppositeOrder ==
    self' = Dispatch(Dispatch(pre, last'.arg).attrs, last.arg).attrs

\* both payloads carry a key of both kinds, with different values
Conflict(m1, m2) ==
    \E k \in KindKeys(m1.msg) \cap KindKeys(m2.msg) :
        /\ k \in DOMAIN m1.data
        /\ k \in DOMAIN m2.data
        /\ m1.data[k] # m2.data[k]

C9_OrderIndependence == [][TwoKinds => SameInOppositeOrder]_vars

C9_OrderIndependenceAmended ==
    [][(TwoKinds /\ ~Conflict(last.arg, last'.arg)) => SameInOppositeOrder]_vars

\* an EQ event without i_curr_eq set the bass, then a SETTING event set the
\* current equalizer
C9_Witness ==
    /\ last.op = "handle_event"
    /\ last.arg.msg = "SETTING_VIEW_INFO"
    /\ DOMAIN last.arg.data = {"i_curr_eq"}
    /\ pre._bass = 1
    /\ pre._equaliser = -1
    /\ self._equaliser = 1
    /\ handled = 2

(***************************************************************************)
(* C10  Idempotence: handling again the event that was handled last         *)
(* changes no attribute.                                                    *)
(***************************************************************************)
C10_Idempotence ==
    [][(EventStep /\ last.op = "handle_event" /\ last'.arg = last.arg) =>
          self' = self]_vars

\* the same SPK event was handled twice
C10_Witness ==
    /\ last.op = "handle_event"
    /\ last.arg.msg = "SPK_LIST_VIEW_INFO"
    /\ DOMAIN last.arg.data = {"i_vol", "i_vol_max"}
    /\ handled = 2
    /\ pre = self
    /\ self = [NewDevice EXCEPT !._volume = 1, !._volume_max = 2]

(***************************************************************************)
(* C11  An SPK_LIST_VIEW_INFO event whose payload holds b_power_status but  *)
(* not b_powerstatus leaves the power state as it was, and still applies    *)
(* the volume and function keys of the payload.                             *)
(***************************************************************************)
LastSpk == last.op = "handle_event" /\ last.arg.msg = "SPK_LIST_VIEW_INFO"

C11_PowerStatusAloneIgnored ==
    (/\ LastSpk
     /\ "b_power_status" \in DOMAIN last.arg.data
     /\ "b_powerstatus" \notin DOMAIN last.arg.data) =>
        /\ self._attr_state = pre._attr_state
        /\ last.raised = None
        /\ \A k \in SpkKeys \cap DOMAIN last.arg.data :
              self[Field(k)] = last.arg.data[k]

\* the device was OFF; {i_curr_func: 1, b_power_status: true} set the function
\* and left it OFF
C11_Witness ==
    /\ LastSpk
    /\ DOMAIN last.arg.data = {"i_curr_func", "b_power_status"}
    /\ last.arg.data["b_power_status"]
    /\ last.arg.data["i_curr_func"] = 1
    /\ pre._attr_state = "OFF"
    /\ self._attr_state = "OFF"
    /\ pre._function = -1
    /\ self._function = 1

(***************************************************************************)
(* C12  After an SPK_LIST_VIEW_INFO event whose payload carries a           *)
(* power-status key the power state is ON when the carried value is true    *)
(* and OFF when it is false; no other event kind changes the power state,   *)
(* which is ON at construction.                                             *)
(***************************************************************************)
PowerOf(value) == IF value THEN "ON" ELSE "OFF"

C12_PowerFollowsStatus ==
    /\ last.op = "__init__" => self._attr_state = "ON"
    /\ self._attr_state # pre._attr_state => LastSpk
    /\ LastSpk =>
          \A k \in PowerKeys \cap DOMAIN last.arg.data :
              self._attr_state = PowerOf(last.arg.data[k])

(***************************************************************************)
(* C13  Commands never write the snapshot: a command changes no attribute   *)
(* (so every read accessor returns what it returned before), and turn_on /  *)
(* turn_off send exactly one power packet carrying the boolean true /       *)
(* false.                                                                   *)
(***************************************************************************)
\* this step is a command
CommandStep == ops' = ops + 1 /\ handled' = handled

\* this step has made exactly one request
OneRequest ==
    /\ Len(sent') = Len(sent) + 1
    /\ SubSeq(sent', 1, Len(sent)) = sent

C13_CommandsKeepSnapshot ==
    [][CommandStep =>
          /\ self' = self
          /\ volume_level(self') = volume_level(self)
          /\ is_volume_muted(self') = is_volume_muted(self)
          /\ last'.op \in {"turn_on", "turn_off"} =>
                /\ OneRequest
                /\ sent'[Len(sent')].cmd = "send_packet"
                /\ sent'[Len(sent')].arg.cmd = "set"
                /\ sent'[Len(sent')].arg.data.b_powerkey = (last'.op = "turn_on")]_vars

\* after an event that turned the device OFF, turn_on has sent its packet
\* and the device is still OFF in the snapshot
C13_Witness ==
    /\ last.op = "turn_on"
    /\ self._attr_state = "OFF"
    /\ pre = self
    /\ Len(sent) = 7
    /\ sent[7].cmd = "send_packet"
    /\ sent[7].arg.data.b_powerkey

(***************************************************************************)
(* C14  set_volume_level(level) makes exactly one set_volume request.  As   *)
(* claimed: its value is round(level * volume_max), the nearest integer.    *)
(* As amended: its value is int(level * volume_max), the product truncated  *)
(* (for the non-negative products here: the largest integer not above it);  *)
(* with volume_max = 0 the request is for volume 0 and nothing is raised.   *)
(***************************************************************************)
SetVolumeStep == CommandStep /\ last'.op = "set_volume_level"

\* the product level * volume_max, as the numerator over last'.arg.den
Product == last'.arg.num * self._volume_max

OneSetVolume ==
    /\ OneRequest
    /\ sent'[Len(sent')].cmd = "set_volume"
    /\ last'.raised = None

C14_VolumeRounded ==
    [][SetVolumeStep =>
          /\ OneSetVolume
          /\ sent'[Len(sent')].arg = PyRound(Product, last'.arg.den)]_vars

C14_VolumeTruncated ==
    [][SetVolumeStep =>
          /\ OneSetVolume
          /\ sent'[Len(sent')].arg * last'.arg.den <= Product
          /\ Product < (sent'[Len(sent')].arg + 1) * last'.arg.den
          /\ self._volume_max = 0 => sent'[Len(sent')].arg = 0]_vars

\* with volume_max = 1 the level 2/3 was sent as volume 0
C14_Witness ==
    /\ last.op = "set_volume_level"
    /\ self._volume_max = 1
    /\ last.arg.num * 3 = 2 * last.arg.den
    /\ Len(sent) = 7
    /\ sent[7].cmd = "set_volume"
    /\ sent[7].arg = 0

(***************************************************************************)
(* C15  _connect opens the transport with the event callback and then       *)
(* requests product info, mac info, equaliser info, general info, function  *)
(* list and settings, in this order; no request is made and no event is     *)
(* handled before the callback is registered.  update() requests exactly    *)
(* the last four, in this order, waits for no event and changes no          *)
(* attribute.                                                               *)
(***************************************************************************)
\* the names of the requests made by this step
NewRequests == [i \in 1..(Len(sent') - Len(sent)) |-> sent'[Len(sent) + i].cmd]

KeepsSent == SubSeq(sent', 1, Len(sent)) = sent

C15_ConnectAndUpdateRequests ==
    [][/\ (sent' # <<>> \/ handled' > 0) => device' # None
       /\ (device = None /\ device' # None) =>
             /\ sent = <<>>
             /\ NewRequests = <<"get_product_info", "get_mac_info", "get_eq",
                                "get_info", "get_func", "get_settings">>
             /\ self' = self
             /\ handled' = handled
       /\ (CommandStep /\ last'.op = "update") =>
             /\ KeepsSent
             /\ NewRequests = <<"get_eq", "get_info", "get_func", "get_settings">>
             /\ self' = self
             /\ notified' = notified]_vars

\* after _connect and one event, update() has made its four requests
C15_Witness ==
    /\ last.op = "update"
    /\ handled = 1
    /\ self # NewDevice
    /\ Len(sent) = 10
    /\ sent[1].cmd = "get_product_info"
    /\ sent[6].cmd = "get_settings"
    /\ sent[7].cmd = "get_eq"
    /\ sent[10].cmd = "get_settings"

(***************************************************************************)
(* C16  In every reachable state volume_min <= volume <= volume_max         *)
(* whenever volume_max is not 0.                                            *)
(***************************************************************************)
C16_VolumeWithinRange ==
    self._volume_max # 0 =>
        /\ self._volume_min <= self._volume
        /\ self._volume <= self._volume_max

(***************************************************************************)
(* C17  Per-kind frame: an event of a recognized kind changes no attribute  *)
(* outside that kind's own field set, also when its payload holds keys of   *)
(* another kind; the display name is changed only by a SETTING_VIEW_INFO    *)
(* event.                                                                   *)
(***************************************************************************)
KindFields(kind) ==
    {Field(k) : k \in KindKeys(kind)}
    \cup (IF kind = "SPK_LIST_VIEW_INFO" THEN {"_attr_state"} ELSE {})

C17_KindFrame ==
    /\ LastRecognized =>
          \A f \in (DOMAIN self) \ KindFields(last.arg.msg) : self[f] = pre[f]
    /\ self._attr_name # pre._attr_name =>
          (last.op = "handle_event" /\ last.arg.msg = "SETTING_VIEW_INFO")

\* an EQ event carrying i_bass and i_vol has set the bass and kept the volume
C17_Witness ==
    /\ last.op = "handle_event"
    /\ last.arg.msg = "EQ_VIEW_INFO"
    /\ DOMAIN last.arg.data = {"i_bass", "i_vol"}
    /\ last.arg.data["i_vol"] = 1
    /\ last.arg.data["i_bass"] = 1
    /\ pre._volume = 2
    /\ self._volume = 2
    /\ pre._bass = 0
    /\ self._bass = 1

(***************************************************************************)
(* C18  Event handling is all-or-nothing: whenever handle_event raises,     *)
(* the snapshot is the one before the message.                              *)
(***************************************************************************)
C18_AllOrNothing ==
    (last.op = "handle_event" /\ last.raised # None) => self = pre

(***************************************************************************)
(* C20  The mute flag is written by no event and by no command:             *)
(* is_volume_muted() is the value set at construction, 0.                   *)
(***************************************************************************)
C20_MuteNeverWritten == is_volume_muted(self) = 0

\* after an event, mute_volume(True) was sent and the flag is still 0
C20_Witness ==
    /\ last.op = "mute_volume"
    /\ last.arg
    /\ handled = 1
    /\ self # NewDevice
    /\ sent[Len(sent)].cmd = "set_mute"
    /\ sent[Len(sent)].arg
    /\ is_volume_muted(self) = 0

(***************************************************************************)
(* C19  No torn reads: while handle_event runs on the callback context,     *)
(* volume_level() on the host's context never divides by zero, and what it  *)
(* returns is its value on the snapshot before or after an event that ran   *)
(* during the read.                                                         *)
(***************************************************************************)
SameRatio(a, b) == a.num * b.den = b.num * a.den

C19_NoTornReads ==
    /\ reader.pc # "ZeroDivisionError"
    /\ reader.pc = "returned" =>
          \E a \in reader.allowed : SameRatio(a, reader.result)

\* the line-by-line callback ends in the snapshot of the one-step handle_event
CallbackAgreesWithDispatch ==
    (callback = "idle" /\ last.op = "handle_event") =>
        /\ self = Dispatch(pre, last.arg).attrs
        /\ last.raised = Dispatch(pre, last.arg).raised

=============================================================================
